---- MODULE Spec2Model ----
(***************************************************************************)
(* Job status state machine of the field-service backend: the transition   *)
(* policy table (config/constants), the evaluator (JobStateMachine) and    *)
(* the route handlers of routes/jobs.js that apply transitions to a        *)
(* stored Job document.                                                    *)
(***************************************************************************)
EXTENDS Integers, Sequences, FiniteSets, TLC

VARIABLES
    job,        \* the stored Job document, or NoJob before POST /api/jobs
    now,        \* the server clock read by new Date()
    req,        \* the request handled last: operation, caller, what it names
    res,        \* the response to it
    edits,      \* how many requests have written client-chosen values to paths
    applied,    \* the status-changing requests that succeeded, in order
    evalIn,     \* arguments handed to the evaluator (current, requested, role)
    evalOut,    \* what the evaluator's functions returned for evalIn
    calls,      \* requests in flight: position and the document each loaded
    rev,        \* number of writes committed to the stored document
    commits     \* for every committed save(): the request and the revision it read

vars == <<job, now, req, res, edits, applied, evalIn, evalOut, calls, rev, commits>>

(***************************************************************************)
(* config/constants                                                        *)
(***************************************************************************)
ADMIN == "ADMIN"
OFFICE_MANAGER == "OFFICE_MANAGER"
TECHNICIAN == "TECHNICIAN"
ROLES == {ADMIN, OFFICE_MANAGER, TECHNICIAN}

TENTATIVE == "TENTATIVE"
CONFIRMED == "CONFIRMED"
ASSIGNED == "ASSIGNED"
IN_PROGRESS == "IN_PROGRESS"
COMPLETED == "COMPLETED"
BILLED == "BILLED"
JOB_STATUS == {TENTATIVE, CONFIRMED, ASSIGNED, IN_PROGRESS, COMPLETED, BILLED}

\* A status name the client knows and the server's table does not.
DISPATCHED == "DISPATCHED"

\* The table with BILLED reopened by an edge back to COMPLETED.
STATUS_TRANSITIONS_Reopened ==
    (TENTATIVE   :> (CONFIRMED   :> {ADMIN})) @@
    (CONFIRMED   :> (ASSIGNED    :> {ADMIN})) @@
    (ASSIGNED    :> (IN_PROGRESS :> {TECHNICIAN})) @@
    (IN_PROGRESS :> (COMPLETED   :> {TECHNICIAN})) @@
    (COMPLETED   :> (BILLED      :> {OFFICE_MANAGER})) @@
    (BILLED      :> (COMPLETED   :> {OFFICE_MANAGER}))

\* current status -> (next status -> allowed roles); BILLED maps to the
\* empty object.
STATUS_TRANSITIONS ==
    (TENTATIVE   :> (CONFIRMED   :> {ADMIN})) @@
    (CONFIRMED   :> (ASSIGNED    :> {ADMIN})) @@
    (ASSIGNED    :> (IN_PROGRESS :> {TECHNICIAN})) @@
    (IN_PROGRESS :> (COMPLETED   :> {TECHNICIAN})) @@
    (COMPLETED   :> (BILLED      :> {OFFICE_MANAGER})) @@
    (BILLED      :> <<>>)

(***************************************************************************)
(* services/JobStateMachine                                                *)
(***************************************************************************)
\* isValidTransition asking `newStatus in Object.keys(allowedTransitions)`:
\* `in` on an array looks among its indices, where no status name is.
isValidTransition_InOnKeys(currentStatus, newStatus) ==
    IF currentStatus = newStatus THEN FALSE
    ELSE IF currentStatus \notin DOMAIN STATUS_TRANSITIONS THEN FALSE
    ELSE newStatus \in {}

\* `newStatus in allowedTransitions`: on status names, which are never
\* names of Object.prototype, `in` is membership among the object's own
\* keys.
isValidTransition(currentStatus, newStatus) ==
    IF currentStatus = newStatus THEN FALSE
    ELSE IF currentStatus \notin DOMAIN STATUS_TRANSITIONS THEN FALSE
    ELSE newStatus \in DOMAIN STATUS_TRANSITIONS[currentStatus]

\* canRolePerformTransition without the look at the edge's roles.
canRolePerformTransition_IgnoresRole(currentStatus, newStatus, userRole) ==
    isValidTransition(currentStatus, newStatus)

canRolePerformTransition(currentStatus, newStatus, userRole) ==
    IF ~isValidTransition(currentStatus, newStatus) THEN FALSE
    ELSE userRole \in STATUS_TRANSITIONS[currentStatus][newStatus]

\* Object.keys(transitions); no status has more than one key, so the order
\* of the keys carries nothing and the array is kept as a set.
getValidNextStatuses(currentStatus) ==
    IF currentStatus \in DOMAIN STATUS_TRANSITIONS
    THEN DOMAIN STATUS_TRANSITIONS[currentStatus]
    ELSE {}

\* getValidNextStatusesForRole without its filter on the roles.
getValidNextStatusesForRole_NoFilter(currentStatus, userRole) ==
    IF currentStatus \notin DOMAIN STATUS_TRANSITIONS THEN {}
    ELSE DOMAIN STATUS_TRANSITIONS[currentStatus]

getValidNextStatusesForRole(currentStatus, userRole) ==
    IF currentStatus \notin DOMAIN STATUS_TRANSITIONS THEN {}
    ELSE {s \in DOMAIN STATUS_TRANSITIONS[currentStatus] :
             userRole \in STATUS_TRANSITIONS[currentStatus][s]}

\* The result object {valid, error}.  The error message is kept as its
\* cause and the list the message enumerates (valid next statuses, or the
\* roles allowed on the edge).
SameStatus == "SameStatus"
NoSuchEdge == "NoSuchEdge"
RoleNotAuthorized == "RoleNotAuthorized"
NoError == "none"

Verdict(ok, cause, listed) == [valid |-> ok, error |-> cause, info |-> listed]

\* validateTransition letting ADMIN through on every edge.
validateTransition_AdminEscalates(currentStatus, newStatus, userRole) ==
    IF currentStatus = newStatus
    THEN Verdict(FALSE, SameStatus, {})
    ELSE IF ~isValidTransition(currentStatus, newStatus)
    THEN Verdict(FALSE, NoSuchEdge, getValidNextStatuses(currentStatus))
    ELSE IF /\ userRole # ADMIN
            /\ ~canRolePerformTransition(currentStatus, newStatus, userRole)
    THEN Verdict(FALSE, RoleNotAuthorized,
                 STATUS_TRANSITIONS[currentStatus][newStatus])
    ELSE Verdict(TRUE, NoError, {})

\* validateTransition without its first test.
validateTransition_NoSameStatusTest(currentStatus, newStatus, userRole) ==
    IF ~isValidTransition(currentStatus, newStatus)
    THEN Verdict(FALSE, NoSuchEdge, getValidNextStatuses(currentStatus))
    ELSE IF ~canRolePerformTransition(currentStatus, newStatus, userRole)
    THEN Verdict(FALSE, RoleNotAuthorized,
                 STATUS_TRANSITIONS[currentStatus][newStatus])
    ELSE Verdict(TRUE, NoError, {})

validateTransition(currentStatus, newStatus, userRole) ==
    IF currentStatus = newStatus
    THEN Verdict(FALSE, SameStatus, {})
    ELSE IF ~isValidTransition(currentStatus, newStatus)
    THEN Verdict(FALSE, NoSuchEdge, getValidNextStatuses(currentStatus))
    ELSE IF ~canRolePerformTransition(currentStatus, newStatus, userRole)
    THEN Verdict(FALSE, RoleNotAuthorized,
                 STATUS_TRANSITIONS[currentStatus][newStatus])
    ELSE Verdict(TRUE, NoError, {})

\* describeStateMachine asking whether the table itself has no keys.
describeStateMachine_CountsTable ==
    [status \in JOB_STATUS |->
       [transitions |-> {[to |-> t, allowedRoles |-> STATUS_TRANSITIONS[status][t]] :
                           t \in DOMAIN STATUS_TRANSITIONS[status]},
        isTerminal  |-> Cardinality(DOMAIN STATUS_TRANSITIONS) = 0]]

\* The description object: for every value of JOB_STATUS its outgoing
\* transitions {to, allowedRoles} and whether it has none.  Every status is
\* a key of the table, so `|| {}` never applies.
describeStateMachine ==
    [status \in JOB_STATUS |->
       [transitions |-> {[to |-> t, allowedRoles |-> STATUS_TRANSITIONS[status][t]] :
                           t \in DOMAIN STATUS_TRANSITIONS[status]},
        isTerminal  |-> Cardinality(DOMAIN STATUS_TRANSITIONS[status]) = 0]]

(***************************************************************************)
(* Users (the User collection) and the values requests carry               *)
(***************************************************************************)
NULL == "null"

A1 == "A1"
M1 == "M1"
T1 == "T1"
T2 == "T2"
U0 == "U0"          \* a well-formed id that names no user
Users == {A1, M1, T1, T2}
UserIds == Users \cup {U0}

roleOf == (A1 :> ADMIN) @@ (M1 :> OFFICE_MANAGER) @@
          (T1 :> TECHNICIAN) @@ (T2 :> TECHNICIAN)

\* Dates: null, a reading of the server clock, or a date a client sent.
NoDate == <<>>
ServerDate(n) == <<"server", n>>
ClientDate == <<"client">>

\* Notes: undefined, or a string the client sent; and the messages the
\* handlers generate.
NoNotes == <<>>
SomeNotes == <<"on site">>
Notes == {NoNotes, SomeNotes}
JobCreated == <<"Job created">>
StatusChanged(from, to) == <<"Status changed from", from, "to", to>>
AssignedTo(name) == <<"Assigned to", name>>

\* Statuses a PATCH /:id/status body may name: the server's six and one
\* the validator rejects.
RequestedStatuses == JOB_STATUS \cup {DISPATCHED}

\* Request bodies of POST / and PUT /:id: JSON objects keyed by paths of
\* the Job schema.
EmptyBody == <<>>
FieldBodies ==
    {("title" :> t) : t \in {"", "rewire"}}
    \cup {("status" :> s) : s \in {BILLED}}
    \cup {("statusHistory" :> <<>>)}
    \cup {("assignedTechnician" :> t) : t \in {NULL, T1, T2}}
    \cup {("completedAt" :> d) : d \in {NoDate, ClientDate}}
    \cup {("billedAt" :> d) : d \in {NoDate, ClientDate}}
PlainBodies == {EmptyBody} \cup FieldBodies

\* A history entry a client wrote.
ForgedEntry ==
    [fromStatus |-> COMPLETED, toStatus |-> BILLED, changedBy |-> T2,
     notes |-> NoNotes]

\* express.json() keeps every key of the JSON object it parses, so a body
\* may carry update operators at its top level.
OperatorBodies ==
    {("$set" :> ("status" :> COMPLETED)),
     ("$set" :> ("statusHistory" :> <<ForgedEntry>>)),
     ("$push" :> ("statusHistory" :> ForgedEntry))}

UpdateBodies == PlainBodies \cup OperatorBodies
CreateBodies == {EmptyBody} \cup {("title" :> "rewire") @@ b : b \in PlainBodies}

(***************************************************************************)
(* The Job document                                                        *)
(***************************************************************************)
NoJob == [status |-> "none"]

JobFields == {"title", "status", "statusHistory", "assignedTechnician",
              "completedAt", "billedAt"}

HistoryEntry(from, to, by, text) ==
    [fromStatus |-> from, toStatus |-> to, changedBy |-> by, notes |-> text]

\* What the schema gives a path the creating object does not name.
SchemaDefaults ==
    [title |-> "", status |-> TENTATIVE, statusHistory |-> <<>>,
     assignedTechnician |-> NULL, completedAt |-> NoDate, billedAt |-> NoDate]

\* A document with the paths named by `data` set to data's values.
SetPaths(doc, data) ==
    [f \in JobFields |-> IF f \in DOMAIN data THEN data[f] ELSE doc[f]]

Without(body, dropped) ==
    [f \in (DOMAIN body) \ dropped |-> body[f]]

(***************************************************************************)
(* Requests and responses                                                  *)
(***************************************************************************)
ValidationError == "ValidationError"
Forbidden == "Forbidden"
NotFound == "NotFound"
NotAssigned == "NotAssigned"
UnknownTechnician == "UnknownTechnician"
WrongRole == "WrongRole"
WrongStatusForAssign == "WrongStatusForAssign"
NotAuthorized == "NotAuthorized"
NoRoute == "NoRoute"

Response(httpStatus, cause) == [code |-> httpStatus, error |-> cause]
Ok == Response(200, NoError)
Created == Response(201, NoError)
NoResponse == Response(0, NoError)

\* A request: the operation, the authenticated caller, and the status
\* (PATCH /:id/status) or technician id (PATCH /:id/assign) it names.
Request(name, u, s, t) == [op |-> name, user |-> u, status |-> s, technicianId |-> t]
NoRequest == Request("none", NULL, NULL, NULL)

\* middleware authorize(...roles): 403 unless the caller's role is listed.
authorize(u, roles) == roleOf[u] \in roles

(***************************************************************************)
(* routes/jobs.js: what each handler answers and what it writes            *)
(***************************************************************************)
\* The handler testing the assignee before it asks the state machine.
transitionResponse_AssigneeFirst(doc, u, newStatus) ==
    IF newStatus \notin JOB_STATUS THEN Response(400, ValidationError)
    ELSE IF doc = NoJob THEN Response(404, NotFound)
    ELSE IF /\ roleOf[u] = TECHNICIAN
            /\ \/ doc.assignedTechnician = NULL
               \/ doc.assignedTechnician # u
    THEN Response(403, NotAssigned)
    ELSE LET validation == validateTransition(doc.status, newStatus, roleOf[u])
         IN  IF ~validation.valid THEN Response(400, validation.error)
             ELSE Ok

\* The handler without its assignee test.
transitionResponse_NoAssigneeTest(doc, u, newStatus) ==
    IF newStatus \notin JOB_STATUS THEN Response(400, ValidationError)
    ELSE IF doc = NoJob THEN Response(404, NotFound)
    ELSE LET validation == validateTransition(doc.status, newStatus, roleOf[u])
         IN  IF ~validation.valid THEN Response(400, validation.error)
             ELSE Ok

\* PATCH /:id/status up to the point where the handler starts to modify
\* the document it loaded: the response it sends, Ok when it goes on.
transitionResponse(doc, u, newStatus) ==
    IF newStatus \notin JOB_STATUS THEN Response(400, ValidationError)
    ELSE IF doc = NoJob THEN Response(404, NotFound)
    ELSE LET validation == validateTransition(doc.status, newStatus, roleOf[u])
         IN  IF ~validation.valid THEN Response(400, validation.error)
             ELSE IF /\ roleOf[u] = TECHNICIAN
                     /\ \/ doc.assignedTechnician = NULL
                        \/ doc.assignedTechnician # u
             THEN Response(403, NotAssigned)
             ELSE Ok

\* The modifications of PATCH /:id/status without the timestamps.
transitionChanges_NoTimestamps(doc, u, newStatus, notes, date) ==
    [push |-> HistoryEntry(doc.status, newStatus, u,
                           IF notes = NoNotes
                           THEN StatusChanged(doc.status, newStatus)
                           ELSE notes),
     set  |-> ("status" :> newStatus)]

\* The modifications PATCH /:id/status makes to the loaded document: one
\* statusHistory.push and the paths it assigns.
transitionChanges(doc, u, newStatus, notes, date) ==
    [push |-> HistoryEntry(doc.status, newStatus, u,
                           IF notes = NoNotes
                           THEN StatusChanged(doc.status, newStatus)
                           ELSE notes),
     set  |-> ("status" :> newStatus)
              @@ (IF newStatus = COMPLETED THEN "completedAt" :> date ELSE <<>>)
              @@ (IF newStatus = BILLED THEN "billedAt" :> date ELSE <<>>)]

\* The assign handler without its CONFIRMED test.
assignResponse_NoConfirmedTest(doc, u, technicianId) ==
    IF ~authorize(u, {ADMIN}) THEN Response(403, Forbidden)
    ELSE IF technicianId \notin Users THEN Response(404, UnknownTechnician)
    ELSE IF roleOf[technicianId] # TECHNICIAN THEN Response(400, WrongRole)
    ELSE IF doc = NoJob THEN Response(404, NotFound)
    ELSE LET validation == validateTransition(doc.status, ASSIGNED, roleOf[u])
         IN  IF ~validation.valid THEN Response(400, validation.error)
             ELSE Ok

\* PATCH /:id/assign up to the point where it starts to modify the document.
assignResponse(doc, u, technicianId) ==
    IF ~authorize(u, {ADMIN}) THEN Response(403, Forbidden)
    ELSE IF technicianId \notin Users THEN Response(404, UnknownTechnician)
    ELSE IF roleOf[technicianId] # TECHNICIAN THEN Response(400, WrongRole)
    ELSE IF doc = NoJob THEN Response(404, NotFound)
    ELSE IF doc.status # CONFIRMED THEN Response(400, WrongStatusForAssign)
    ELSE LET validation == validateTransition(doc.status, ASSIGNED, roleOf[u])
         IN  IF ~validation.valid THEN Response(400, validation.error)
             ELSE Ok

assignChanges(doc, u, technicianId, notes) ==
    [push |-> HistoryEntry(doc.status, ASSIGNED, u,
                           IF notes = NoNotes THEN AssignedTo(technicianId)
                           ELSE notes),
     set  |-> ("assignedTechnician" :> technicianId) @@ ("status" :> ASSIGNED)]

\* save() losing the pushed history entry.
save_LosesPush(stored, changes) == SetPaths(stored, changes.set)

\* job.save(): the modified paths are written to the stored document and
\* the pushed entry is appended to its statusHistory.
save(stored, changes) ==
    [SetPaths(stored, changes.set) EXCEPT
        !.statusHistory = Append(stored.statusHistory, changes.push)]

\* new Date() is read only on the way into COMPLETED or BILLED.
readsClock(newStatus) == newStatus \in {COMPLETED, BILLED}

\* POST /
createResponse(u, body) ==
    IF ~authorize(u, {ADMIN}) THEN Response(403, Forbidden)
    ELSE IF "title" \notin DOMAIN body \/ body["title"] = ""
    THEN Response(400, ValidationError)
    ELSE Created

\* jobData with the body spread after the fields the handler sets.
jobData_BodyLast(u, body) ==
    SetPaths(SetPaths(SchemaDefaults,
                      [status |-> TENTATIVE,
                       statusHistory |-> <<HistoryEntry(NULL, TENTATIVE, u, JobCreated)>>]),
             body)

jobData(u, body) ==
    SetPaths(SetPaths(SchemaDefaults, body),
             [status |-> TENTATIVE,
              statusHistory |-> <<HistoryEntry(NULL, TENTATIVE, u, JobCreated)>>])

\* PUT /:id
updateResponse(doc, u, body) ==
    IF ~authorize(u, {ADMIN, OFFICE_MANAGER}) THEN Response(403, Forbidden)
    ELSE IF "title" \in DOMAIN body /\ body["title"] = ""
    THEN Response(400, ValidationError)
    ELSE IF doc = NoJob THEN Response(404, NotFound)
    ELSE Ok

updateData(body) == Without(body, {"status", "statusHistory"})

\* Job.findByIdAndUpdate(id, updateData): keys that are no operators are
\* $set; $set assigns the paths it names; $push appends to the array it
\* names.
findByIdAndUpdate(doc, update) ==
    LET assigned == SetPaths(doc, update)
        set == IF "$set" \in DOMAIN update
               THEN SetPaths(assigned, update["$set"])
               ELSE assigned
    IN  IF "$push" \in DOMAIN update
        THEN [set EXCEPT !.statusHistory =
                            Append(@, update["$push"]["statusHistory"])]
        ELSE set

\* GET /:id
getJobResponse(doc, u) ==
    IF doc = NoJob THEN Response(404, NotFound)
    ELSE IF roleOf[u] = TECHNICIAN /\ doc.assignedTechnician # u
    THEN Response(403, NotAuthorized)
    ELSE Ok

\* GET /:id/history
historyResponse(doc, u) ==
    IF doc = NoJob THEN Response(404, NotFound)
    ELSE Ok

(***************************************************************************)
(* Requests handled one at a time                                          *)
(***************************************************************************)
Idle == UNCHANGED <<evalIn, evalOut, calls, rev, commits>>

\* What a successful status-changing request is remembered as.
Applied(name, u, from, to) == [op |-> name, user |-> u, from |-> from, to |-> to]

\* Paths other than title that a body gives a value the stored document
\* keeps.
Edits(body) == (DOMAIN updateData(body)) \ {"title"}

createJob(u, body) ==
    /\ job = NoJob
    /\ req' = Request("createJob", u,
                       IF "status" \in DOMAIN body THEN body["status"] ELSE NULL,
                       NULL)
    /\ res' = createResponse(u, body)
    /\ IF res'.code = 201
       THEN /\ job' = jobData(u, body)
            /\ edits' = IF Edits(body) = {} THEN edits ELSE edits + 1
       ELSE UNCHANGED <<job, edits>>
    /\ UNCHANGED <<now, applied>>
    /\ Idle

transitionStatus(u, newStatus, notes) ==
    /\ req' = Request("transitionStatus", u, newStatus, NULL)
    /\ res' = transitionResponse(job, u, newStatus)
    /\ IF res'.code = 200
       THEN /\ job' = save(job, transitionChanges(job, u, newStatus, notes,
                                                  ServerDate(now)))
            /\ now' = IF readsClock(newStatus) THEN now + 1 ELSE now
            /\ applied' = Append(applied, Applied("transitionStatus", u,
                                                  job.status, newStatus))
       ELSE UNCHANGED <<job, now, applied>>
    /\ UNCHANGED edits
    /\ Idle

assignTechnician(u, technicianId, notes) ==
    /\ req' = Request("assignTechnician", u, NULL, technicianId)
    /\ res' = assignResponse(job, u, technicianId)
    /\ IF res'.code = 200
       THEN /\ job' = save(job, assignChanges(job, u, technicianId, notes))
            /\ applied' = Append(applied, Applied("assignTechnician", u,
                                                  job.status, ASSIGNED))
       ELSE UNCHANGED <<job, applied>>
    /\ UNCHANGED <<now, edits>>
    /\ Idle

updateJobDetails(u, body) ==
    /\ req' = Request("updateJobDetails", u, NULL, NULL)
    /\ res' = updateResponse(job, u, body)
    /\ IF res'.code = 200
       THEN /\ job' = findByIdAndUpdate(job, updateData(body))
            /\ edits' = IF Edits(body) = {} THEN edits ELSE edits + 1
       ELSE UNCHANGED <<job, edits>>
    /\ UNCHANGED <<now, applied>>
    /\ Idle

getJob(u) ==
    /\ req' = Request("getJob", u, NULL, NULL)
    /\ res' = getJobResponse(job, u)
    /\ UNCHANGED <<job, now, edits, applied>>
    /\ Idle

getStatusHistory(u) ==
    /\ req' = Request("getStatusHistory", u, NULL, NULL)
    /\ res' = historyResponse(job, u)
    /\ UNCHANGED <<job, now, edits, applied>>
    /\ Idle

\* PATCH /:id/reassign, which the client sends: the router has no such
\* route, and the request falls through to the notFound middleware.
reassignTechnician(u, technicianId) ==
    /\ req' = Request("reassignTechnician", u, NULL, technicianId)
    /\ res' = Response(404, NoRoute)
    /\ UNCHANGED <<job, now, edits, applied>>
    /\ Idle

\* The response has been sent and the handler has returned: the server
\* takes the next request.
respond ==
    /\ req # NoRequest
    /\ req' = NoRequest
    /\ res' = NoResponse
    /\ UNCHANGED <<job, now, edits, applied>>
    /\ Idle

\* Requests are handled one at a time: none is being answered.
Ready == req = NoRequest

NoCalls == <<>>

\* The evaluator has not answered evalIn yet.
Pending == [pending |-> TRUE]

\* Bound of the model: how many history entries may carry notes a client
\* wrote; further requests come without notes.
MaxNoted == 1

\* Bound of the model: how many requests may write client-chosen values
\* to paths other than title; further bodies name no such path.
MaxEdits == 1

BodiesLeft(bodies) ==
    IF edits < MaxEdits THEN bodies ELSE {b \in bodies : Edits(b) = {}}

NotesLeft ==
    IF job = NoJob THEN {NoNotes}
    ELSE IF Cardinality({i \in DOMAIN job.statusHistory :
                            job.statusHistory[i].notes = SomeNotes}) < MaxNoted
    THEN Notes
    ELSE {NoNotes}

Init ==
    /\ job = NoJob
    /\ now = 1
    /\ req = NoRequest
    /\ res = NoResponse
    /\ edits = 0
    /\ applied = <<>>
    /\ evalIn = <<TENTATIVE, TENTATIVE, ADMIN>>
    /\ evalOut = Pending
    /\ calls = NoCalls
    /\ rev = 0
    /\ commits = {}

Next ==
    \/ \E u \in Users, body \in BodiesLeft(CreateBodies) :
          Ready /\ createJob(u, body)
    \/ \E u \in Users, s \in RequestedStatuses, n \in NotesLeft :
          Ready /\ transitionStatus(u, s, n)
    \/ \E u \in Users, t \in UserIds, n \in NotesLeft :
          Ready /\ assignTechnician(u, t, n)
    \/ \E u \in Users, body \in BodiesLeft(UpdateBodies) :
          Ready /\ updateJobDetails(u, body)
    \/ \E u \in Users : Ready /\ getJob(u)
    \/ \E u \in Users : Ready /\ getStatusHistory(u)
    \/ \E u \in Users, t \in {T1, T2} : Ready /\ reassignTechnician(u, t)
    \/ respond

Spec == Init /\ [][Next]_vars

(***************************************************************************)
(* Requests in flight together.  A PATCH handler awaits Job.findById and   *)
(* later job.save(); between the two it runs without interruption, so each *)
(* request takes two steps: it loads the document and decides, and its     *)
(* save() reaches the store.  Other requests may take steps in between.    *)
(***************************************************************************)
\* Bound of the model: how many requests may be in flight at once.
MaxCalls == 2

CallIds == 1..MaxCalls

\* Bound of the model: requests arrive only while fewer than this many
\* save() calls have reached the store.
MaxWrites == 2

Arriving == rev < MaxWrites

NoChanges == [push |-> HistoryEntry(NULL, NULL, NULL, NoNotes), set |-> <<>>]
IdleCall == [pc |-> "idle", req |-> NoRequest, changes |-> NoChanges, readRev |-> 0]
Saving(r, ch) == [pc |-> "saving", req |-> r, changes |-> ch, readRev |-> rev]

\* PATCH /:id/status from Job.findById to the call of job.save(): the
\* handler answers at once, or leaves with the document modified in memory.
loadForTransition(c, u, newStatus, notes) ==
    /\ calls[c].pc = "idle"
    /\ LET r == transitionResponse(job, u, newStatus)
           q == Request("transitionStatus", u, newStatus, NULL)
       IN  IF r.code = 200
           THEN /\ calls' = [calls EXCEPT ![c] =
                              Saving(q, transitionChanges(job, u, newStatus, notes,
                                                          ServerDate(now)))]
                /\ now' = IF readsClock(newStatus) THEN now + 1 ELSE now
                /\ UNCHANGED <<req, res>>
           ELSE /\ req' = q
                /\ res' = r
                /\ UNCHANGED <<calls, now>>
    /\ UNCHANGED <<job, edits, applied, evalIn, evalOut, rev, commits>>

\* PATCH /:id/assign from Job.findById to the call of job.save().
loadForAssign(c, u, technicianId, notes) ==
    /\ calls[c].pc = "idle"
    /\ LET r == assignResponse(job, u, technicianId)
           q == Request("assignTechnician", u, NULL, technicianId)
       IN  IF r.code = 200
           THEN /\ calls' = [calls EXCEPT ![c] =
                              Saving(q, assignChanges(job, u, technicianId, notes))]
                /\ UNCHANGED <<req, res>>
           ELSE /\ req' = q
                /\ res' = r
                /\ UNCHANGED calls
    /\ UNCHANGED <<job, now, edits, applied, evalIn, evalOut, rev, commits>>

\* await job.save() and the 200 response that follows it.
saveAndRespond(c) ==
    /\ calls[c].pc = "saving"
    /\ job' = save(job, calls[c].changes)
    /\ rev' = rev + 1
    /\ commits' = commits \cup {[call |-> c, readRev |-> calls[c].readRev]}
    /\ applied' = Append(applied, Applied(calls[c].req.op, calls[c].req.user,
                                          calls[c].changes.push.fromStatus,
                                          calls[c].changes.push.toStatus))
    /\ req' = calls[c].req
    /\ res' = Ok
    /\ calls' = [calls EXCEPT ![c] = IdleCall]
    /\ UNCHANGED <<now, edits, evalIn, evalOut>>

InitConc ==
    /\ job = NoJob
    /\ now = 1
    /\ req = NoRequest
    /\ res = NoResponse
    /\ edits = 0
    /\ applied = <<>>
    /\ evalIn = <<TENTATIVE, TENTATIVE, ADMIN>>
    /\ evalOut = Pending
    /\ calls = [c \in CallIds |-> IdleCall]
    /\ rev = 0
    /\ commits = {}

NextConc ==
    \/ \E u \in Users : createJob(u, "title" :> "rewire")
    \/ \E c \in CallIds, u \in Users, s \in RequestedStatuses :
          Arriving /\ loadForTransition(c, u, s, NoNotes)
    \/ \E c \in CallIds, u \in Users, t \in UserIds :
          Arriving /\ loadForAssign(c, u, t, NoNotes)
    \/ \E c \in CallIds : saveAndRespond(c)

SpecConc == InitConc /\ [][NextConc]_vars

(***************************************************************************)
(* The evaluator on its own: the static methods of JobStateMachine applied *)
(* to arguments drawn from the status names and the roles                  *)
(***************************************************************************)
EvalStatuses == JOB_STATUS \cup {DISPATCHED}
EvalInputs == EvalStatuses \X EvalStatuses \X ROLES

Evaluate ==
    /\ evalOut = Pending
    /\ evalOut' =
         [validation  |-> validateTransition(evalIn[1], evalIn[2], evalIn[3]),
          isValid     |-> isValidTransition(evalIn[1], evalIn[2]),
          canRole     |-> canRolePerformTransition(evalIn[1], evalIn[2], evalIn[3]),
          next        |-> getValidNextStatuses(evalIn[1]),
          nextForRole |-> getValidNextStatusesForRole(evalIn[1], evalIn[3]),
          description |-> describeStateMachine]
    /\ UNCHANGED <<job, now, req, res, edits, applied, evalIn, calls, rev, commits>>

Ask(in) ==
    /\ evalOut # Pending
    /\ evalIn' = in
    /\ evalOut' = Pending
    /\ UNCHANGED <<job, now, req, res, edits, applied, calls, rev, commits>>

InitEval ==
    /\ job = NoJob
    /\ now = 1
    /\ req = NoRequest
    /\ res = NoResponse
    /\ edits = 0
    /\ applied = <<>>
    /\ evalIn \in EvalInputs
    /\ evalOut = Pending
    /\ calls = NoCalls
    /\ rev = 0
    /\ commits = {}

NextEval ==
    \/ Evaluate
    \/ \E in \in EvalInputs : Ask(in)

SpecEval == InitEval /\ [][NextEval]_vars

Evaluated == evalOut # Pending
IsEdge(from, to) ==
    from \in DOMAIN STATUS_TRANSITIONS /\ to \in DOMAIN STATUS_TRANSITIONS[from]
Allowed == Verdict(TRUE, NoError, {})

(***************************************************************************)
(* The client: the job detail panel's workflow table                       *)
(***************************************************************************)
\* status -> the one action the panel offers in it; BILLED has no entry.
NEXT_ACTIONS ==
    (TENTATIVE   :> [nextStatus |-> CONFIRMED,   allowedRoles |-> {ADMIN},
                     isAssign |-> FALSE]) @@
    (CONFIRMED   :> [nextStatus |-> ASSIGNED,    allowedRoles |-> {ADMIN},
                     isAssign |-> TRUE]) @@
    (ASSIGNED    :> [nextStatus |-> DISPATCHED,  allowedRoles |-> {OFFICE_MANAGER},
                     isAssign |-> FALSE]) @@
    (DISPATCHED  :> [nextStatus |-> IN_PROGRESS, allowedRoles |-> {TECHNICIAN},
                     isAssign |-> FALSE]) @@
    (IN_PROGRESS :> [nextStatus |-> COMPLETED,   allowedRoles |-> {TECHNICIAN},
                     isAssign |-> FALSE]) @@
    (COMPLETED   :> [nextStatus |-> BILLED,      allowedRoles |-> {OFFICE_MANAGER},
                     isAssign |-> FALSE])

STATUS_FLOW ==
    <<TENTATIVE, CONFIRMED, ASSIGNED, DISPATCHED, IN_PROGRESS, COMPLETED, BILLED>>

\* nextAction && nextAction.allowedRoles.includes(userRole)
canPerformAction(status, userRole) ==
    /\ status \in DOMAIN NEXT_ACTIONS
    /\ userRole \in NEXT_ACTIONS[status].allowedRoles

\* The request the panel sends when the user takes the offered action: the
\* assign modal's PATCH /:id/assign for an action marked isAssign, and
\* handleTransition(nextAction.nextStatus) otherwise.
nextActionRequest(status, u, technicianId) ==
    IF NEXT_ACTIONS[status].isAssign
    THEN Request("assignTechnician", u, NULL, technicianId)
    ELSE Request("transitionStatus", u, NEXT_ACTIONS[status].nextStatus, NULL)

(***************************************************************************)
(* Claims                                                                  *)
(***************************************************************************)

\* C1: on every edge (from, to) of the table, validateTransition allows a
\* role exactly when the role is in the edge's role set and otherwise
\* denies with RoleNotAuthorized; ADMIN gets no implicit escalation:
\* (ASSIGNED, IN_PROGRESS, ADMIN) is denied with RoleNotAuthorized and
\* (ASSIGNED, IN_PROGRESS, TECHNICIAN) is allowed.
C1_RoleIsSetMembership ==
    Evaluated =>
      /\ IsEdge(evalIn[1], evalIn[2]) =>
           IF evalIn[3] \in STATUS_TRANSITIONS[evalIn[1]][evalIn[2]]
           THEN evalOut.validation = Allowed
           ELSE /\ ~evalOut.validation.valid
                /\ evalOut.validation.error = RoleNotAuthorized
      /\ evalIn = <<ASSIGNED, IN_PROGRESS, ADMIN>> =>
           evalOut.validation.error = RoleNotAuthorized
      /\ evalIn = <<ASSIGNED, IN_PROGRESS, TECHNICIAN>> =>
           evalOut.validation.valid

C1_Witness ==
    /\ Evaluated
    /\ evalIn = <<ASSIGNED, IN_PROGRESS, ADMIN>>
    /\ evalOut.validation.error = RoleNotAuthorized

\* C2: for every status S and role R, validateTransition(S, S, R) is denied
\* with the SameStatus cause and isValidTransition(S, S) is false.
C2_SelfTransitionDenied ==
    (Evaluated /\ evalIn[1] = evalIn[2]) =>
      /\ ~evalOut.validation.valid
      /\ evalOut.validation.error = SameStatus
      /\ ~evalOut.isValid
      /\ ~evalOut.canRole

C2_Witness ==
    /\ Evaluated
    /\ evalIn[1] = CONFIRMED /\ evalIn[2] = CONFIRMED /\ evalIn[3] = ADMIN
    /\ evalOut.validation.error = SameStatus

\* C3 as stated: getValidNextStatuses(BILLED) is empty and
\* validateTransition(BILLED, X, R) is denied with NoSuchEdge for every
\* status X and role R.
C3_Original ==
    (Evaluated /\ evalIn[1] = BILLED) =>
      /\ evalOut.next = {}
      /\ ~evalOut.validation.valid
      /\ evalOut.validation.error = NoSuchEdge

\* C3 amended: getValidNextStatuses(BILLED) is empty and
\* validateTransition(BILLED, X, R) is denied for every X and R, with
\* NoSuchEdge when X is not BILLED and with SameStatus when X is BILLED.
C3_TerminalDenied ==
    (Evaluated /\ evalIn[1] = BILLED) =>
      /\ evalOut.next = {}
      /\ ~evalOut.validation.valid
      /\ evalOut.validation.error =
           IF evalIn[2] = BILLED THEN SameStatus ELSE NoSuchEdge
      /\ evalOut.validation.info = {}

C3_Witness ==
    /\ Evaluated
    /\ evalIn = <<BILLED, COMPLETED, OFFICE_MANAGER>>
    /\ evalOut.validation.error = NoSuchEdge

\* C4: when exactly N status-changing requests (transitionStatus or
\* assignTechnician) have succeeded on a created job, statusHistory has N+1
\* entries, the k-th entry after the seed records the k-th successful
\* request, and requests that failed have added none.
C4_HistoryCountsSuccesses ==
    IF job = NoJob THEN applied = <<>>
    ELSE /\ Len(job.statusHistory) = Len(applied) + 1
         /\ job.statusHistory[1].fromStatus = NULL
         /\ \A k \in 1..Len(applied) :
              /\ job.statusHistory[k + 1].fromStatus = applied[k].from
              /\ job.statusHistory[k + 1].toStatus = applied[k].to
              /\ job.statusHistory[k + 1].changedBy = applied[k].user

C4_Witness ==
    /\ job # NoJob
    /\ Len(applied) = 5
    /\ Len(job.statusHistory) = 6
    /\ req.op = "assignTechnician" /\ res.code # 200

PolicyCauses == {SameStatus, NoSuchEdge, RoleNotAuthorized}

\* The step handles a PATCH /:id/status request that passed the body
\* validator and found the job.
TransitionHandled ==
    /\ job # NoJob
    /\ req'.op = "transitionStatus"
    /\ req'.status \in JOB_STATUS

\* The evaluator's verdict on the request the step handles.
VerdictOnStep == validateTransition(job.status, req'.status, roleOf[req'.user])

LastEntry(doc) == doc.statusHistory[Len(doc.statusHistory)]

\* C7: a transitionStatus request the evaluator denies (SameStatus,
\* NoSuchEdge or RoleNotAuthorized) is answered with that denial reason and
\* leaves status, statusHistory, assignedTechnician, completedAt and
\* billedAt as they were.
C7_DenialChangesNothing ==
    [][(TransitionHandled /\ ~VerdictOnStep.valid)
         => /\ res'.code = 400
            /\ res'.error = VerdictOnStep.error
            /\ res'.error \in PolicyCauses
            /\ job' = job]_vars

C7_Witness ==
    /\ job # NoJob
    /\ job.status = TENTATIVE
    /\ req = Request("transitionStatus", A1, ASSIGNED, NULL)
    /\ res = Response(400, NoSuchEdge)

\* C8: a transitionStatus request by a technician that the evaluator allows
\* succeeds only if the technician is the job's assignedTechnician;
\* otherwise it fails with NotAssigned and the job is unchanged.  So every
\* history entry whose actor is a technician was appended while that
\* technician was the assignee.
C8_TechnicianMustBeAssignee ==
    [][ /\ ( /\ TransitionHandled
             /\ roleOf[req'.user] = TECHNICIAN
             /\ VerdictOnStep.valid )
           => IF job.assignedTechnician = req'.user
              THEN /\ res'.code = 200
                   /\ job'.status = req'.status
                   /\ LastEntry(job').changedBy = req'.user
              ELSE /\ res'.code = 403 /\ res'.error = NotAssigned
                   /\ job' = job
        /\ ( /\ job # NoJob
             /\ Len(job'.statusHistory) > Len(job.statusHistory)
             /\ roleOf[LastEntry(job').changedBy] = TECHNICIAN )
           => job.assignedTechnician = LastEntry(job').changedBy
      ]_vars

C8_Witness ==
    /\ job # NoJob
    /\ job.status = ASSIGNED
    /\ job.assignedTechnician = T1
    /\ req = Request("transitionStatus", T2, IN_PROGRESS, NULL)
    /\ res = Response(403, NotAssigned)

\* The step handles a PATCH /:id/assign request for a stored job.
AssignHandled == job # NoJob /\ req'.op = "assignTechnician"

AssignApplied ==
    /\ res'.code = 200
    /\ job'.assignedTechnician = req'.technicianId
    /\ job'.status = ASSIGNED
    /\ Len(job'.statusHistory) = Len(job.statusHistory) + 1
    /\ SubSeq(job'.statusHistory, 1, Len(job.statusHistory)) = job.statusHistory
    /\ LastEntry(job').fromStatus = CONFIRMED
    /\ LastEntry(job').toStatus = ASSIGNED
    /\ LastEntry(job').changedBy = req'.user
    /\ job'.completedAt = job.completedAt
    /\ job'.billedAt = job.billedAt

C10_Original ==
    [][(job # NoJob) =>
         /\ job'.completedAt # job.completedAt
              => /\ job.completedAt = NoDate
                 /\ req'.op = "transitionStatus"
                 /\ job'.status = COMPLETED /\ job.status # COMPLETED
         /\ job'.billedAt # job.billedAt
              => /\ job.billedAt = NoDate
                 /\ req'.op = "transitionStatus"
                 /\ job'.status = BILLED /\ job.status # BILLED
      ]_vars

\* C6: at most one successful transition per job per logical revision:
\* under every interleaving of the read, validate and write steps of
\* concurrent transitionStatus and assignTechnician requests on one job,
\* at most one request that validated against a given read of the job
\* commits; the others observe a conflict and leave the job as the winner
\* wrote it.
C6_Original ==
    \A x \in commits, y \in commits : (x.readRev = y.readRev) => (x = y)

\* C19: validateTransition returns exactly one of four verdicts, in this
\* precedence for every (current, requested, role): SameStatus if current
\* = requested; otherwise NoSuchEdge if the table has no edge current ->
\* requested; otherwise RoleNotAuthorized if the role is not in the edge's
\* role set; otherwise Allowed.  Its valid flag equals
\* canRolePerformTransition(current, requested, role) on every input.
C19_VerdictPrecedence ==
    Evaluated =>
      /\ evalOut.validation.error =
           IF evalIn[1] = evalIn[2] THEN SameStatus
           ELSE IF ~IsEdge(evalIn[1], evalIn[2]) THEN NoSuchEdge
           ELSE IF evalIn[3] \notin STATUS_TRANSITIONS[evalIn[1]][evalIn[2]]
           THEN RoleNotAuthorized
           ELSE NoError
      /\ evalOut.validation.valid = (evalOut.validation.error = NoError)
      /\ evalOut.validation.valid = evalOut.canRole

C19_Witness ==
    /\ Evaluated
    /\ evalIn = <<COMPLETED, BILLED, TECHNICIAN>>
    /\ evalOut.validation.error = RoleNotAuthorized
    /\ ~evalOut.canRole

\* C20: isValidTransition(current, requested) is true iff current #
\* requested and the table has an edge current -> requested, whatever the
\* role; equivalently iff requested is a member of
\* getValidNextStatuses(current).
C20_ValidIffEdge ==
    Evaluated =>
      /\ evalOut.isValid = (evalIn[1] # evalIn[2] /\ IsEdge(evalIn[1], evalIn[2]))
      /\ evalOut.isValid = (evalIn[2] \in evalOut.next)

C20_Witness ==
    /\ Evaluated
    /\ evalIn[1] = IN_PROGRESS /\ evalIn[2] = COMPLETED /\ evalIn[3] = ADMIN
    /\ evalOut.isValid
    /\ ~evalOut.validation.valid

\* The step handles a PUT /:id request for a stored job.
UpdateHandled == job # NoJob /\ req'.op = "updateJobDetails"

\* C11: updateJobDetails never changes a job's status or statusHistory,
\* whatever the request body contains: after the call both stored values
\* equal their values before the call.
C11_Original ==
    [][UpdateHandled
         => /\ job'.status = job.status
            /\ job'.statusHistory = job.statusHistory]_vars

\* The step handles a GET /:id/history request for a stored job.
HistoryRequested == job # NoJob /\ req'.op = "getStatusHistory"

\* C12: a caller with role TECHNICIAN reads a job's status history only
\* when they are the job's assignedTechnician; asking for the history of a
\* job assigned to someone else, or to nobody, is refused with
\* NotAuthorized and no history is returned.
C12_Original ==
    [][(HistoryRequested /\ roleOf[req'.user] = TECHNICIAN)
         => IF job.assignedTechnician = req'.user
            THEN res'.code = 200
            ELSE res'.code = 403 /\ res'.error = NotAuthorized]_vars

ReassignStatuses == {ASSIGNED, DISPATCHED, IN_PROGRESS}

\* C13: for a job in DISPATCHED, ASSIGNED or IN_PROGRESS, reassignTechnician
\* by an ADMIN to a technician succeeds, resets status to ASSIGNED, sets
\* assignedTechnician to that technician and appends one history entry from
\* the prior status to ASSIGNED; in any other status it fails (with
\* WrongStatusForReassign) and changes nothing.
C13_Original ==
    [][(job # NoJob /\ req'.op = "reassignTechnician" /\ roleOf[req'.user] = ADMIN)
         => IF job.status \in ReassignStatuses
            THEN /\ res'.code = 200
                 /\ job'.status = ASSIGNED
                 /\ job'.assignedTechnician = req'.technicianId
                 /\ Len(job'.statusHistory) = Len(job.statusHistory) + 1
                 /\ LastEntry(job').fromStatus = job.status
                 /\ LastEntry(job').toStatus = ASSIGNED
            ELSE /\ res'.code # 200
                 /\ job' = job]_vars

\* The end-to-end run of scripts/test-api.js: the requests after the
\* creation, what each is remembered as, and the status after each.
RunRequests ==
    << Request("transitionStatus", A1, CONFIRMED, NULL),
       Request("assignTechnician", A1, NULL, T1),
       Request("transitionStatus", T1, IN_PROGRESS, NULL),
       Request("transitionStatus", T1, COMPLETED, NULL),
       Request("transitionStatus", M1, BILLED, NULL) >>

RunApplied ==
    << Applied("transitionStatus", A1, TENTATIVE, CONFIRMED),
       Applied("assignTechnician", A1, CONFIRMED, ASSIGNED),
       Applied("transitionStatus", T1, ASSIGNED, IN_PROGRESS),
       Applied("transitionStatus", T1, IN_PROGRESS, COMPLETED),
       Applied("transitionStatus", M1, COMPLETED, BILLED) >>

RunStatuses == <<TENTATIVE, CONFIRMED, ASSIGNED, IN_PROGRESS, COMPLETED, BILLED>>

\* The job has been created and exactly the first k requests of the run
\* have been applied to it; no other request has written to it.
AfterRunStep(k) ==
    /\ job # NoJob
    /\ edits = 0
    /\ applied = SubSeq(RunApplied, 1, k)
    /\ (k >= 2) => job.assignedTechnician = T1

ToStatuses(history) == [i \in 1..Len(history) |-> history[i].toStatus]

\* What the run expects of the job after its k-th request.
RunStateOk(doc, k) ==
    /\ doc.status = RunStatuses[k + 1]
    /\ Len(doc.statusHistory) = k + 1
    /\ ToStatuses(doc.statusHistory) = SubSeq(RunStatuses, 1, k + 1)
    /\ doc.assignedTechnician = (IF k >= 2 THEN T1 ELSE NULL)
    /\ (doc.completedAt # NoDate) = (k >= 4)
    /\ (doc.billedAt # NoDate) = (k >= 5)

RunAccepted ==
    /\ (req'.op = "createJob" /\ res'.code = 201 /\ edits' = 0)
         => RunStateOk(job', 0)
    /\ \A k \in 0..4 :
         (AfterRunStep(k) /\ req' = RunRequests[k + 1])
           => res'.code = 200 /\ RunStateOk(job', k + 1)

\* A PATCH /:id/status request naming one of the six statuses arrives after
\* the whole run.
AttemptAfterRun ==
    /\ AfterRunStep(5)
    /\ req'.op = "transitionStatus"
    /\ req'.status \in JOB_STATUS

\* C14 as stated: the end-to-end run is accepted step by step (create:
\* TENTATIVE, history length 1; ADMIN to CONFIRMED: 2; ADMIN assigns T1:
\* ASSIGNED, assignee T1, 3; T1 to IN_PROGRESS: 4; T1 to COMPLETED:
\* completedAt set, 5; OFFICE_MANAGER to BILLED: billedAt set, 6; the
\* toStatus sequence being the six statuses in order), and every further
\* transition attempt from BILLED fails with NoSuchEdge.
C14_Original ==
    [][ /\ RunAccepted
        /\ AttemptAfterRun
             => /\ res'.code = 400
                /\ res'.error = NoSuchEdge
                /\ job' = job ]_vars

\* C14 amended: the run is accepted step by step as stated, and every
\* further transitionStatus attempt from BILLED fails and changes nothing:
\* with NoSuchEdge when it names another status, with SameStatus when it
\* names BILLED.
C14_LifecycleRun ==
    [][ /\ RunAccepted
        /\ AttemptAfterRun
             => /\ res'.code = 400
                /\ res'.error = (IF req'.status = BILLED THEN SameStatus
                                 ELSE NoSuchEdge)
                /\ job' = job ]_vars

C14_Witness ==
    /\ job # NoJob
    /\ edits = 0
    /\ applied = RunApplied
    /\ RunStateOk(job, 5)
    /\ req = Request("transitionStatus", M1, COMPLETED, NULL)
    /\ res = Response(400, NoSuchEdge)

\* C15: createJob always yields a job with status TENTATIVE and a
\* statusHistory of exactly one entry (fromStatus null, toStatus TENTATIVE,
\* actor the creator, notes 'Job created'), whatever status or
\* statusHistory the request body supplies.
C15_CreatedTentative ==
    [][(req'.op = "createJob" /\ res'.code = 201)
         => /\ job = NoJob
            /\ job'.status = TENTATIVE
            /\ job'.statusHistory =
                 <<HistoryEntry(NULL, TENTATIVE, req'.user, JobCreated)>>]_vars

C15_Witness ==
    /\ req = Request("createJob", A1, BILLED, NULL)
    /\ res = Created
    /\ job # NoJob
    /\ job.status = TENTATIVE
    /\ Len(job.statusHistory) = 1

\* C16: statusHistory is append-only: the history before a step is a prefix
\* of the history after it; no operation removes, reorders or modifies an
\* existing entry.
C16_Original ==
    [][(job # NoJob)
         => /\ Len(job'.statusHistory) >= Len(job.statusHistory)
            /\ SubSeq(job'.statusHistory, 1, Len(job.statusHistory))
                 = job.statusHistory]_vars

\* The step changes the stored status, or the stored history.
StatusWritten == job'.status # job.status
HistoryWritten == job'.statusHistory # job.statusHistory

\* C17: no transition is partially applied: a step that changes the stored
\* status also appends the one history entry from the old status to the new
\* one, a step that changes the history also changes the status, and the
\* accompanying field (assignedTechnician for assign, completedAt for
\* COMPLETED, billedAt for BILLED) is written in the same step.
C17_Original ==
    [][(job # NoJob /\ (StatusWritten \/ HistoryWritten))
         => /\ StatusWritten
            /\ Len(job'.statusHistory) = Len(job.statusHistory) + 1
            /\ SubSeq(job'.statusHistory, 1, Len(job.statusHistory))
                 = job.statusHistory
            /\ LastEntry(job').fromStatus = job.status
            /\ LastEntry(job').toStatus = job'.status
            /\ (req'.op = "assignTechnician")
                 => job'.assignedTechnician = req'.technicianId
            /\ (job'.status = COMPLETED) => job'.completedAt # NoDate
            /\ (job'.status = BILLED) => job'.billedAt # NoDate]_vars

\* C18: BILLED is absorbing for the job record: once the status is BILLED,
\* no transitionStatus, assignTechnician or updateJobDetails call by any
\* role changes the status or the length of statusHistory.
C18_Original ==
    [][(job # NoJob /\ job.status = BILLED)
         => /\ job'.status = BILLED
            /\ Len(job'.statusHistory) = Len(job.statusHistory)]_vars

\* C21: canRolePerformTransition(current, requested, role) is true iff
\* isValidTransition(current, requested) holds and role is a member of the
\* edge's role set; and getValidNextStatusesForRole(current, role) is
\* exactly the set of statuses s of getValidNextStatuses(current) with
\* canRolePerformTransition(current, s, role).
C21_RoleRestriction ==
    Evaluated =>
      /\ evalOut.canRole =
           ( /\ evalOut.isValid
             /\ evalIn[3] \in STATUS_TRANSITIONS[evalIn[1]][evalIn[2]] )
      /\ evalOut.nextForRole =
           {s \in evalOut.next :
              canRolePerformTransition(evalIn[1], s, evalIn[3])}
      /\ evalOut.nextForRole \subseteq evalOut.next

C21_Witness ==
    /\ Evaluated
    /\ evalIn = <<COMPLETED, BILLED, OFFICE_MANAGER>>
    /\ evalOut.canRole
    /\ evalOut.nextForRole = {BILLED}

\* The statuses describeStateMachine reports as terminal.
ReportedTerminal == {s \in JOB_STATUS : evalOut.description[s].isTerminal}

\* C22: the transition policy table is well-formed: no status maps to
\* itself, the terminal status BILLED maps to the empty set, every status
\* other than BILLED has at least one outgoing edge with a non-empty role
\* set, and describeStateMachine reports isTerminal = true for exactly the
\* statuses with no outgoing edge.
C22_TableWellFormed ==
    Evaluated =>
      /\ DOMAIN STATUS_TRANSITIONS = JOB_STATUS
      /\ \A s \in JOB_STATUS :
           /\ s \notin DOMAIN STATUS_TRANSITIONS[s]
           /\ DOMAIN STATUS_TRANSITIONS[s] \subseteq JOB_STATUS
           /\ (s # BILLED) =>
                \E t \in DOMAIN STATUS_TRANSITIONS[s] :
                   /\ STATUS_TRANSITIONS[s][t] # {}
                   /\ STATUS_TRANSITIONS[s][t] \subseteq ROLES
      /\ DOMAIN STATUS_TRANSITIONS[BILLED] = {}
      /\ ReportedTerminal = {s \in JOB_STATUS : DOMAIN STATUS_TRANSITIONS[s] = {}}
      /\ ReportedTerminal = {BILLED}
      /\ (evalIn[1] \in JOB_STATUS) =>
           /\ evalIn[1] \notin evalOut.next
           /\ evalOut.description[evalIn[1]].isTerminal = (evalOut.next = {})
           /\ {e.to : e \in evalOut.description[evalIn[1]].transitions} = evalOut.next

C22_Witness ==
    /\ Evaluated
    /\ evalIn[1] = BILLED
    /\ evalOut.next = {}
    /\ evalOut.description[BILLED].isTerminal
    /\ ~evalOut.description[COMPLETED].isTerminal

\* C23: in every state reachable by operations applied one at a time, the
\* history is a connected chain that ends at the current status: the first
\* entry is (null -> TENTATIVE), every later entry's fromStatus equals the
\* previous entry's toStatus, every later entry is an edge of the
\* transition table, and the last entry's toStatus equals job.status.
C23_Original ==
    (job # NoJob) =>
      /\ Len(job.statusHistory) >= 1
      /\ job.statusHistory[1].fromStatus = NULL
      /\ job.statusHistory[1].toStatus = TENTATIVE
      /\ \A i \in 2..Len(job.statusHistory) :
           /\ job.statusHistory[i].fromStatus = job.statusHistory[i - 1].toStatus
           /\ IsEdge(job.statusHistory[i].fromStatus, job.statusHistory[i].toStatus)
      /\ LastEntry(job).toStatus = job.status

\* The statuses from ASSIGNED on.
AssignedOnward == {ASSIGNED, IN_PROGRESS, COMPLETED, BILLED}

\* C24: in every reachable state, a job whose status is ASSIGNED,
\* IN_PROGRESS, COMPLETED or BILLED has a non-null assignedTechnician: a
\* job can enter ASSIGNED only together with an assignee being set,
\* including when an ADMIN requests CONFIRMED -> ASSIGNED through the
\* generic transitionStatus operation.
C24_Original ==
    (job # NoJob /\ job.status \in AssignedOnward)
      => job.assignedTechnician # NULL

\* Some user has a status-changing request the handlers would accept on
\* the stored job.
SomeRequestSucceeds ==
    \/ \E u \in Users, s \in JOB_STATUS : transitionResponse(job, u, s).code = 200
    \/ \E u \in Users, t \in UserIds : assignResponse(job, u, t).code = 200

\* C25: no reachable job state other than BILLED is stuck: in every
\* reachable state with status # BILLED there exist a user (of some role,
\* possibly the assignee) and a status-changing operation (transitionStatus
\* or assignTechnician) that succeeds, so BILLED remains reachable from
\* every reachable state.
C25_Original ==
    (job # NoJob /\ job.status # BILLED) => SomeRequestSucceeds

\* The workflow order of the statuses, and the statuses the job has been
\* in: the one it was created in and those its successful requests led to.
OrderOf(s) == CHOOSE i \in 1..Len(RunStatuses) : RunStatuses[i] = s
Entered == {TENTATIVE} \cup {applied[i].to : i \in DOMAIN applied}

\* The step handles a status-changing request that succeeds.
StatusRequestSucceeds ==
    /\ job # NoJob
    /\ req'.op \in {"transitionStatus", "assignTechnician"}
    /\ res'.code = 200

\* C26: status moves strictly forward one step at a time: every successful
\* transitionStatus or assignTechnician changes the status to its immediate
\* successor in the order TENTATIVE, CONFIRMED, ASSIGNED, IN_PROGRESS,
\* COMPLETED, BILLED; no status is skipped (TENTATIVE -> ASSIGNED is
\* rejected) and no status is ever re-entered.
C26_Original ==
    [][ /\ StatusRequestSucceeds
          => /\ OrderOf(job'.status) = OrderOf(job.status) + 1
             /\ job'.status \notin Entered
        /\ ( /\ job # NoJob
             /\ req'.op = "transitionStatus"
             /\ req'.status \in JOB_STATUS
             /\ OrderOf(req'.status) # OrderOf(job.status) + 1 )
          => res'.code = 400 /\ job' = job
      ]_vars

\* C27: in transitionStatus the evaluator's verdict is decided before the
\* assignee check: a request by a technician who is not the job's assignee
\* and that the evaluator also denies fails with the evaluator's cause
\* (SameStatus, NoSuchEdge or RoleNotAuthorized, HTTP 400), never with
\* NotAssigned (HTTP 403); NotAssigned is returned only for requests the
\* evaluator allows.
C27_VerdictBeforeAssignee ==
    [][ /\ ( /\ TransitionHandled
             /\ roleOf[req'.user] = TECHNICIAN
             /\ job.assignedTechnician # req'.user
             /\ ~VerdictOnStep.valid )
          => /\ res'.code = 400
             /\ res'.error = VerdictOnStep.error
             /\ res'.error \in PolicyCauses
             /\ job' = job
        /\ (req'.op = "transitionStatus" /\ res'.error = NotAssigned)
          => /\ res'.code = 403
             /\ TransitionHandled
             /\ VerdictOnStep.valid
             /\ roleOf[req'.user] = TECHNICIAN
      ]_vars

C27_Witness ==
    /\ job # NoJob
    /\ job.status = TENTATIVE
    /\ job.assignedTechnician = NULL
    /\ req = Request("transitionStatus", T1, CONFIRMED, NULL)
    /\ res = Response(400, RoleNotAuthorized)

\* The derived timestamps of a document agree with its status.
TimestampsAgree(doc) ==
    /\ (doc.completedAt # NoDate) = (doc.status \in {COMPLETED, BILLED})
    /\ (doc.billedAt # NoDate) = (doc.status = BILLED)

\* C28: in every reachable state the derived timestamps agree with the
\* status: completedAt is non-null iff status is COMPLETED or BILLED, and
\* billedAt is non-null iff status is BILLED; no operation other than the
\* transition into COMPLETED (resp. BILLED) gives completedAt (resp.
\* billedAt) a value, createJob and updateJobDetails with those fields in
\* the request body included.
C28_Original ==
    [][(job' # NoJob) =>
         /\ TimestampsAgree(job')
         /\ ( /\ job'.completedAt # NoDate
              /\ (job = NoJob \/ job.completedAt = NoDate) )
              => /\ req'.op = "transitionStatus"
                 /\ req'.status = COMPLETED
         /\ ( /\ job'.billedAt # NoDate
              /\ (job = NoJob \/ job.billedAt = NoDate) )
              => /\ req'.op = "transitionStatus"
                 /\ req'.status = BILLED
      ]_vars

\* C29: assignedTechnician is written only by the assignment operations:
\* it is null after createJob, it changes only in a successful
\* assignTechnician (or reassignTechnician), and updateJobDetails by an
\* ADMIN or OFFICE_MANAGER leaves it unchanged whatever the request body
\* contains.
C29_Original ==
    [][ /\ (req'.op = "createJob" /\ res'.code = 201)
          => job'.assignedTechnician = NULL
        /\ (job # NoJob /\ job'.assignedTechnician # job.assignedTechnician)
          => /\ req'.op \in {"assignTechnician", "reassignTechnician"}
             /\ res'.code = 200
             /\ job'.assignedTechnician = req'.technicianId
        /\ UpdateHandled
          => job'.assignedTechnician = job.assignedTechnician
      ]_vars

\* The caller of the step's request is not a technician other than the
\* job's assignee.
CallerEntitled ==
    /\ req'.user \in Users
    /\ roleOf[req'.user] = TECHNICIAN => job.assignedTechnician = req'.user

\* The step's request is the one the panel sends for the action it offers
\* the caller in the job's status.
OfferedOnStep ==
    /\ canPerformAction(job.status, roleOf[req'.user])
    /\ \E t \in {T1, T2} : req' = nextActionRequest(job.status, req'.user, t)

\* C30: the client's workflow table and the server's policy table agree:
\* for every status S and role R, the next action the UI offers R in S
\* (NEXT_ACTIONS[S].nextStatus when R is in its allowedRoles) is a
\* transition the server accepts for R, and every transition the server
\* accepts for R from S is offered by the UI to R; in particular a job
\* driven only through UI-offered actions can progress from ASSIGNED to
\* BILLED.
C30_Original ==
    [][(job # NoJob /\ CallerEntitled) =>
         /\ OfferedOnStep => res'.code = 200
         /\ StatusRequestSucceeds
              => /\ canPerformAction(job.status, roleOf[req'.user])
                 /\ NEXT_ACTIONS[job.status].nextStatus = job'.status
      ]_vars

====
